---- MODULE Spec2Model ----
(***************************************************************************)
(* Model of zprp/models/cycle_gan/model.py: the CycleGAN LightningModule.  *)
(*                                                                         *)
(* Tensors are symbolic.  Every tensor produced by a forward operation is  *)
(* a node of the autograd graph, identified by the source line that        *)
(* creates it; a node records the operation, the network and the version   *)
(* of the network's parameters it was computed with, its argument nodes    *)
(* and the moment (length of the event log) it was created.  The gradient  *)
(* held by a network is the set of backward contributions accumulated on   *)
(* its parameters: one entry per (backward root, network call reached).    *)
(***************************************************************************)
EXTENDS Integers, Sequences, FiniteSets, TLC

\* ---------------------------------------------------------------- bounds
MaxCalls == 2
NumBatches == 1
MaxEpoch == 1
MaxVal == 1
LambdaVals == {1, 2}

\* ---------------------------------------------------------------- state
VARIABLES
    pc,             \* position of the framework / of training_step
    logger,         \* self.logger is configured
    regularization, \* self.regularization: "None", or an instance by its truth value
    lambda_param,   \* self.lambda_param
    optimizers,     \* list returned by configure_optimizers (bound network of each)
    opt,            \* training_step locals g_optimizer, f_optimizer, dx_optimizer, dy_optimizer
    params,         \* version of the parameters of each network
    grad,           \* .grad accumulated on the parameters of each network
    zeroMark,       \* call and number of backward passes done at the last zero_grad of each network
    applied,        \* gradient consumed by the last optimizer step of each network
    graph,          \* autograd graph of the current training_step call
    loc,            \* tensor locals of training_step (name -> node id)
    freed,          \* graph nodes whose buffers a backward pass has freed
    bwVisited,      \* nodes and parameter leaves traversed by each manual_backward of the call
    bwError,        \* a backward pass met a freed node (RuntimeError)
    events,         \* zero_grad / backward / step events of the current call
    startParams,    \* params at the start of the current call
    batch,          \* index of the batch of the current call
    calls,          \* number of training_step calls started
    current_epoch,  \* self.current_epoch
    logged,         \* images passed to logger.experiment.add_image
    metrics,        \* last dictionary passed to log_dict
    fwdRuns,        \* number of forward executions of each network
    valCalls        \* number of validation_step calls

vars == <<pc, logger, regularization, lambda_param, optimizers, opt, params, grad,
          zeroMark, applied, graph, loc, freed, bwVisited, bwError, events,
          startParams, batch, calls, current_epoch, logged, metrics, fwdRuns, valCalls>>

cfgVars == <<logger, regularization, lambda_param>>

\* ---------------------------------------------------------------- names
Nets == {"g", "f", "dx", "dy"}
Generators == {"g", "f"}
Discriminators == {"dx", "dy"}

OptNames == {"g_optimizer", "f_optimizer", "dx_optimizer", "dy_optimizer"}

LocNames == {"real_x", "real_y", "fake_y", "fake_x", "dx_loss", "dy_loss",
             "g_loss", "f_loss", "cycle_x", "cycle_y", "total_cycle_loss",
             "total_G_loss", "total_F_loss"}

NodeIds == {"real_x", "real_y",
            "L152_fake_y", "L153_fake_x",
            "L155_dx_real", "L155_dx_fake", "L155_ones", "L155_real_loss",
            "L155_zeros", "L155_fake_loss", "L155_sum", "L155_dx_loss",
            "L156_dy_real", "L156_d_fake", "L156_ones", "L156_real_loss",
            "L156_zeros", "L156_fake_loss", "L156_sum", "L156_dy_loss",
            "L168_fake_y", "L169_fake_x",
            "L172_dy", "L172_dy2", "L172_ones", "L172_g_loss",
            "L173_dx", "L173_dx2", "L173_ones", "L173_f_loss",
            "L175_cycle_x", "L176_cycle_y",
            "L179_cycle_x_loss", "L179_cycle_y_loss", "L179_sum", "L179_cycle_loss",
            "L180_reg", "L179_total_cycle_loss",
            "L184_total_G_loss", "L185_total_F_loss"}

Undef == "undef"

\* RegularizationClass: not given, or a module class whose instance is falsy
\* (a container without children, __len__() == 0) or truthy
RegularizationClasses == {"None", "FalsyModule", "TruthyModule"}

\* line 93: RegularizationClass() if RegularizationClass else None
NewRegularization(cls) ==
    CASE cls = "None" -> "None"
      [] cls = "FalsyModule" -> "falsy"
      [] cls = "TruthyModule" -> "truthy"

\* bool(self.regularization), the test of line 180
Truthy(r) == r = "truthy"

\* ---------------------------------------------------------------- graph nodes
One == <<1, 1>>
Half == <<1, 2>>

Node(op, net, ver, args, k, born) ==
    [op |-> op, net |-> net, ver |-> ver, args |-> args, k |-> k, born |-> born]

NoNode == Node("none", "", 0, <<>>, One, 0)

EmptyGraph == [id \in NodeIds |-> NoNode]

Put(gr, id, node) == [gr EXCEPT ![id] = node]

Range(s) == {s[i] : i \in 1..Len(s)}

\* self.<net>(inp): a forward pass with the current parameters of net
NetCall(gr, id, net, inp) ==
    Put(gr, id, Node("net", net, params[net], <<inp>>, One, Len(events)))

\* LSGANLoss.forward(preds, targets) = mean((preds - targets) ** 2)
LSGANLoss_forward(gr, id, preds, targets) ==
    Put(gr, id, Node("lsgan", "", 0, <<preds, targets>>, One, Len(events)))

\* CycleConsistencyLoss.forward(real, reconstructed) = mean(abs(real - reconstructed))
CycleConsistencyLoss_forward(gr, id, real, reconstructed) ==
    Put(gr, id, Node("cyc", "", 0, <<real, reconstructed>>, One, Len(events)))

\* torch.ones_like / torch.zeros_like: a constant, no gradient function
ConstLike(gr, id, op, src) ==
    Put(gr, id, Node(op, "", 0, <<src>>, One, Len(events)))

Add(gr, id, a, b) == Put(gr, id, Node("add", "", 0, <<a, b>>, One, Len(events)))

\* tensor + python number
AddScalar(gr, id, a, k) ==
    Put(gr, id, Node("add_scalar", "", 0, <<a>>, k, Len(events)))

Mul(gr, id, a, k) == Put(gr, id, Node("mul", "", 0, <<a>>, k, Len(events)))

\* CycleGAN._discriminator_loss; ids = <<ones, real_loss, zeros, fake_loss, sum, result>>
discriminator_loss(gr, real_preds, fake_preds, ids) ==
    LET g1 == ConstLike(gr, ids[1], "ones_like", real_preds)
        g2 == LSGANLoss_forward(g1, ids[2], real_preds, ids[1])
        g3 == ConstLike(g2, ids[3], "zeros_like", fake_preds)
        g4 == LSGANLoss_forward(g3, ids[4], fake_preds, ids[3])
        g5 == Add(g4, ids[5], ids[2], ids[4])
    IN  Mul(g5, ids[6], ids[5], Half)

\* CycleGAN._cycle_loss; ids = <<cycle_x_loss, cycle_y_loss, sum, result>>
cycle_loss(gr, real_x, cycle_x, real_y, cycle_y, ids) ==
    LET g1 == CycleConsistencyLoss_forward(gr, ids[1], real_x, cycle_x)
        g2 == CycleConsistencyLoss_forward(g1, ids[2], real_y, cycle_y)
        g3 == Add(g2, ids[3], ids[1], ids[2])
    IN  Mul(g3, ids[4], ids[3], <<lambda_param, 1>>)

\* nodes that carry a gradient function (everything computed from a network output)
HasGradFn(gr, id) ==
    gr[id].op \in {"net", "lsgan", "cyc", "add", "add_scalar", "mul", "reg"}

RECURSIVE Reach(_, _, _)
Reach(gr, frontier, seen) ==
    IF frontier = {} THEN seen
    ELSE LET new == {a \in UNION {Range(gr[n].args) : n \in frontier} :
                        HasGradFn(gr, a)} \ seen
         IN  Reach(gr, new, seen \cup new)

\* the autograd graph hanging from a tensor
GraphOf(gr, root) == IF root \in NodeIds THEN Reach(gr, {root}, {root}) ELSE {}

\* forward calls of network n inside the graph of root
CallsOf(gr, root, n) ==
    {c \in GraphOf(gr, root) : gr[c].op = "net" /\ gr[c].net = n}

\* parameter leaves (the AccumulateGrad nodes of the networks) under a tensor
ParamLeaves(gr, root) ==
    {gr[c].net : c \in {n \in GraphOf(gr, root) : gr[n].op = "net"}}

Event(kind, name, target) == [kind |-> kind, name |-> name, target |-> target]

\* ---------------------------------------------------------------- construction
Init ==
    /\ pc = "constructed"
    /\ logger \in BOOLEAN
    /\ \E cls \in RegularizationClasses : regularization = NewRegularization(cls)
    /\ lambda_param \in LambdaVals
    /\ optimizers = <<>>
    /\ opt = [o \in OptNames |-> Undef]
    /\ params = [n \in Nets |-> 0]
    /\ grad = [n \in Nets |-> {}]
    /\ zeroMark = [n \in Nets |-> [call |-> 0, bw |-> 0]]
    /\ applied = [n \in Nets |-> {}]
    /\ graph = EmptyGraph
    /\ loc = [v \in LocNames |-> Undef]
    /\ freed = {}
    /\ bwVisited = <<>>
    /\ bwError = FALSE
    /\ events = <<>>
    /\ startParams = [n \in Nets |-> 0]
    /\ batch = 0
    /\ calls = 0
    /\ current_epoch = 0
    /\ logged = <<>>
    /\ metrics = [m \in {} |-> Undef]
    /\ fwdRuns = [n \in Nets |-> 0]
    /\ valCalls = 0


\* variant: the list is returned discriminators first
configure_optimizers_discriminators_first ==
    /\ pc = "constructed"
    /\ optimizers' = <<[params |-> "dx"], [params |-> "dy"],
                       [params |-> "g"], [params |-> "f"]>>
    /\ pc' = "idle"
    /\ UNCHANGED <<cfgVars, opt, params, grad, zeroMark, applied, graph, loc, freed,
                   bwVisited, bwError, events, startParams, batch, calls,
                   current_epoch, logged, metrics, fwdRuns, valCalls>>

\* ---------------------------------------------------------------- configure_optimizers
\* one Adam optimizer per network, returned as [g, f, dx, dy]
configure_optimizers ==
    /\ pc = "constructed"
    /\ optimizers' = <<[params |-> "g"], [params |-> "f"],
                       [params |-> "dx"], [params |-> "dy"]>>
    /\ pc' = "idle"
    /\ UNCHANGED <<cfgVars, opt, params, grad, zeroMark, applied, graph, loc, freed,
                   bwVisited, bwError, events, startParams, batch, calls,
                   current_epoch, logged, metrics, fwdRuns, valCalls>>

\* ---------------------------------------------------------------- statement forms
\* <optimizer>.zero_grad(): clears the gradients of the optimizer's parameters
ZeroGrad(label, name, next) ==
    /\ pc = label
    /\ LET n == opt[name] IN
        /\ grad' = [grad EXCEPT ![n] = {}]
        /\ zeroMark' = [zeroMark EXCEPT ![n] = [call |-> calls, bw |-> Len(bwVisited)]]
        /\ events' = Append(events, Event("zero_grad", name, n))
    /\ pc' = next
    /\ UNCHANGED <<cfgVars, optimizers, opt, params, applied, graph, loc, freed,
                   bwVisited, bwError, startParams, batch, calls, current_epoch,
                   logged, metrics, fwdRuns, valCalls>>

\* <optimizer>.step(): Adam updates the parameters that hold a gradient
OptStep(label, name, next) ==
    /\ pc = label
    /\ LET n == opt[name] IN
        /\ params' = [params EXCEPT ![n] = IF grad[n] # {} THEN @ + 1 ELSE @]
        /\ applied' = [applied EXCEPT ![n] = grad[n]]
        /\ events' = Append(events, Event("step", name, n))
    /\ pc' = next
    /\ UNCHANGED <<cfgVars, optimizers, opt, grad, zeroMark, graph, loc, freed,
                   bwVisited, bwError, startParams, batch, calls, current_epoch,
                   logged, metrics, fwdRuns, valCalls>>

\* self.manual_backward(loss, retain_graph=retain): accumulates on every network
\* reached from loss, then frees the traversed graph unless it is retained;
\* traversing a freed node raises
Backward(label, lossVar, retain, next) ==
    /\ pc = label
    /\ LET root == loc[lossVar]
           nodes == GraphOf(graph, root)
       IN IF nodes \cap freed # {}
          THEN /\ bwError' = TRUE
               /\ pc' = "raised"
               /\ UNCHANGED <<grad, freed, bwVisited, events>>
          ELSE /\ grad' = [n \in Nets |-> grad[n] \cup
                             {[root |-> root, via |-> c, bw |-> Len(bwVisited) + 1,
                               call |-> calls] : c \in CallsOf(graph, root, n)}]
               /\ freed' = IF retain THEN freed ELSE freed \cup nodes
               /\ bwVisited' = Append(bwVisited, nodes \cup ParamLeaves(graph, root))
               /\ events' = Append(events, Event("backward", lossVar, root))
               /\ pc' = next
               /\ UNCHANGED bwError
    /\ UNCHANGED <<cfgVars, optimizers, opt, params, zeroMark, applied, graph, loc,
                   startParams, batch, calls, current_epoch, logged, metrics,
                   fwdRuns, valCalls>>

\* a statement that only computes tensors: new graph, new locals, forward counts
Compute(label, newGraph, newLoc, runs, next) ==
    /\ pc = label
    /\ graph' = newGraph
    /\ loc' = newLoc
    /\ fwdRuns' = [n \in Nets |-> fwdRuns[n] + runs[n]]
    /\ pc' = next
    /\ UNCHANGED <<cfgVars, optimizers, opt, params, grad, zeroMark, applied, freed,
                   bwVisited, bwError, events, startParams, batch, calls,
                   current_epoch, logged, metrics, valCalls>>

Runs(n1, k1) == [n \in Nets |-> IF n = n1 THEN k1 ELSE 0]

\* ---------------------------------------------------------------- training_step
\* lines 144-145: unpack the batch and the optimizers
training_step_begin ==
    /\ pc = "idle"
    /\ calls < MaxCalls
    /\ \E b \in 1..NumBatches :
        /\ batch' = b
        /\ graph' = [EmptyGraph EXCEPT
                        !["real_x"] = Node("input", "", b, <<>>, One, 0),
                        !["real_y"] = Node("input", "", b, <<>>, One, 0)]
    /\ loc' = [v \in LocNames |-> IF v \in {"real_x", "real_y"} THEN v ELSE Undef]
    /\ opt' = [g_optimizer |-> optimizers[1].params, f_optimizer |-> optimizers[2].params,
               dx_optimizer |-> optimizers[3].params, dy_optimizer |-> optimizers[4].params]
    /\ calls' = calls + 1
    /\ startParams' = params
    /\ events' = <<>>
    /\ freed' = {}
    /\ bwVisited' = <<>>
    /\ pc' = "L149"
    /\ UNCHANGED <<cfgVars, optimizers, params, grad, zeroMark, applied, bwError,
                   current_epoch, logged, metrics, fwdRuns, valCalls>>

\* 1. Train discriminators
L149_dx_zero_grad == ZeroGrad("L149", "dx_optimizer", "L150")

L150_dy_zero_grad == ZeroGrad("L150", "dy_optimizer", "L152")

L152_fake_y ==
    Compute("L152", NetCall(graph, "L152_fake_y", "g", loc["real_x"]),
            [loc EXCEPT !["fake_y"] = "L152_fake_y"], Runs("g", 1), "L153")

L153_fake_x ==
    Compute("L153", NetCall(graph, "L153_fake_x", "f", loc["real_y"]),
            [loc EXCEPT !["fake_x"] = "L153_fake_x"], Runs("f", 1), "L155")

\* dx_loss = _discriminator_loss(real_preds=self.dx(real_x), fake_preds=self.dx(fake_x))
L155_dx_loss ==
    LET g1 == NetCall(graph, "L155_dx_real", "dx", loc["real_x"])
        g2 == NetCall(g1, "L155_dx_fake", "dx", loc["fake_x"])
        g3 == discriminator_loss(g2, "L155_dx_real", "L155_dx_fake",
                  <<"L155_ones", "L155_real_loss", "L155_zeros", "L155_fake_loss",
                    "L155_sum", "L155_dx_loss">>)
    IN  Compute("L155", g3, [loc EXCEPT !["dx_loss"] = "L155_dx_loss"],
                Runs("dx", 2), "L156")

\* dy_loss = _discriminator_loss(real_preds=self.dy(real_y), fake_preds=self.dx(fake_y))
L156_dy_loss ==
    LET g1 == NetCall(graph, "L156_dy_real", "dy", loc["real_y"])
        g2 == NetCall(g1, "L156_d_fake", "dx", loc["fake_y"])
        g3 == discriminator_loss(g2, "L156_dy_real", "L156_d_fake",
                  <<"L156_ones", "L156_real_loss", "L156_zeros", "L156_fake_loss",
                    "L156_sum", "L156_dy_loss">>)
    IN  Compute("L156", g3, [loc EXCEPT !["dy_loss"] = "L156_dy_loss"],
                [n \in Nets |-> IF n \in {"dx", "dy"} THEN 1 ELSE 0], "L158")

L158_backward_dx_loss == Backward("L158", "dx_loss", FALSE, "L159")

L159_backward_dy_loss == Backward("L159", "dy_loss", FALSE, "L160")

\* variant: a generator optimizer is stepped in the discriminator phase
L160_steps_generator == OptStep("L160", "g_optimizer", "L161")

L160_dx_step == OptStep("L160", "dx_optimizer", "L161")

L161_dy_step == OptStep("L161", "dy_optimizer", "L165")


\* 2. Train generators
\* variant: the generator gradients are not cleared
L165_no_zero_grad ==
    /\ pc = "L165"
    /\ pc' = "L166"
    /\ UNCHANGED <<cfgVars, optimizers, opt, params, grad, zeroMark, applied, graph, loc,
                   freed, bwVisited, bwError, events, startParams, batch, calls,
                   current_epoch, logged, metrics, fwdRuns, valCalls>>

L165_g_zero_grad == ZeroGrad("L165", "g_optimizer", "L166")

L166_f_zero_grad == ZeroGrad("L166", "f_optimizer", "L168")

\* variant: the discriminator-phase fake_y is reused
L168_reuses_fake_y == Compute("L168", graph, loc, Runs("g", 0), "L169")

L168_fake_y ==
    Compute("L168", NetCall(graph, "L168_fake_y", "g", loc["real_x"]),
            [loc EXCEPT !["fake_y"] = "L168_fake_y"], Runs("g", 1), "L169")

L169_fake_x ==
    Compute("L169", NetCall(graph, "L169_fake_x", "f", loc["real_y"]),
            [loc EXCEPT !["fake_x"] = "L169_fake_x"], Runs("f", 1), "L172")

\* g_loss = lsgan_loss(self.dy(fake_y), ones_like(self.dy(fake_y)))
L172_g_loss ==
    LET g1 == NetCall(graph, "L172_dy", "dy", loc["fake_y"])
        g2 == NetCall(g1, "L172_dy2", "dy", loc["fake_y"])
        g3 == ConstLike(g2, "L172_ones", "ones_like", "L172_dy2")
        g4 == LSGANLoss_forward(g3, "L172_g_loss", "L172_dy", "L172_ones")
    IN  Compute("L172", g4, [loc EXCEPT !["g_loss"] = "L172_g_loss"],
                Runs("dy", 2), "L173")

\* f_loss = lsgan_loss(self.dx(fake_x), ones_like(self.dx(fake_x)))
L173_f_loss ==
    LET g1 == NetCall(graph, "L173_dx", "dx", loc["fake_x"])
        g2 == NetCall(g1, "L173_dx2", "dx", loc["fake_x"])
        g3 == ConstLike(g2, "L173_ones", "ones_like", "L173_dx2")
        g4 == LSGANLoss_forward(g3, "L173_f_loss", "L173_dx", "L173_ones")
    IN  Compute("L173", g4, [loc EXCEPT !["f_loss"] = "L173_f_loss"],
                Runs("dx", 2), "L175")

L175_cycle_x ==
    Compute("L175", NetCall(graph, "L175_cycle_x", "f", loc["fake_y"]),
            [loc EXCEPT !["cycle_x"] = "L175_cycle_x"], Runs("f", 1), "L176")

L176_cycle_y ==
    Compute("L176", NetCall(graph, "L176_cycle_y", "g", loc["fake_x"]),
            [loc EXCEPT !["cycle_y"] = "L176_cycle_y"], Runs("g", 1), "L179")

\* total_cycle_loss = _cycle_loss(...) + (regularization(real_x, fake_y) if regularization else 0)
L179_total_cycle_loss ==
    LET g1 == cycle_loss(graph, loc["real_x"], loc["cycle_x"], loc["real_y"], loc["cycle_y"],
                  <<"L179_cycle_x_loss", "L179_cycle_y_loss", "L179_sum", "L179_cycle_loss">>)
        g2 == IF Truthy(regularization)
              THEN Add(Put(g1, "L180_reg",
                           Node("reg", "", 0, <<loc["real_x"], loc["fake_y"]>>, One, Len(events))),
                       "L179_total_cycle_loss", "L179_cycle_loss", "L180_reg")
              ELSE AddScalar(g1, "L179_total_cycle_loss", "L179_cycle_loss", <<0, 1>>)
    IN  Compute("L179", g2, [loc EXCEPT !["total_cycle_loss"] = "L179_total_cycle_loss"],
                Runs("g", 0), "L184")

L184_total_G_loss ==
    Compute("L184", Add(graph, "L184_total_G_loss", loc["g_loss"], loc["total_cycle_loss"]),
            [loc EXCEPT !["total_G_loss"] = "L184_total_G_loss"], Runs("g", 0), "L185")

L185_total_F_loss ==
    Compute("L185", Add(graph, "L185_total_F_loss", loc["f_loss"], loc["total_cycle_loss"]),
            [loc EXCEPT !["total_F_loss"] = "L185_total_F_loss"], Runs("g", 0), "L187")

\* retain_graph argument of manual_backward(total_G_loss, ...)
RetainGraphTotalG == TRUE

L187_backward_total_G_loss == Backward("L187", "total_G_loss", RetainGraphTotalG, "L190")

L190_backward_total_F_loss == Backward("L190", "total_F_loss", FALSE, "L191")

L191_g_step == OptStep("L191", "g_optimizer", "L192")

L192_f_step == OptStep("L192", "f_optimizer", "L194")

\* self.log_dict({...}); return None
L194_log_dict ==
    /\ pc = "L194"
    /\ metrics' = [cyclegan_dx_loss |-> loc["dx_loss"],
                   cyclegan_dy_loss |-> loc["dy_loss"],
                   cyclegan_g_loss |-> loc["g_loss"],
                   cyclegan_f_loss |-> loc["f_loss"],
                   cyclegan_total_cycle_loss |-> loc["total_cycle_loss"],
                   cyclegan_total_g_loss |-> loc["total_G_loss"],
                   cyclegan_total_f_loss |-> loc["total_F_loss"]]
    /\ pc' = "idle"
    /\ UNCHANGED <<cfgVars, optimizers, opt, params, grad, zeroMark, applied, graph, loc,
                   freed, bwVisited, bwError, events, startParams, batch, calls,
                   current_epoch, logged, fwdRuns, valCalls>>

\* ---------------------------------------------------------------- validation_step
\* an image computed under torch.no_grad(): the source batch and the operations applied
Image(src, b) == [src |-> src, batch |-> b, ops |-> <<>>]

Apply(img, op, ver) == [img EXCEPT !.ops = Append(@, <<op, ver>>)]

x_to_y(x) == Apply(x, "g", params["g"])

y_to_x(y) == Apply(y, "f", params["f"])

\* (x * 0.5) + 0.5
unnormalize(x) == Apply(x, "unnormalize", 0)

make_grid(x) == Apply(x, "make_grid", 0)

\* logger.experiment.add_image(name, make_grid(unnormalize(image)), current_epoch)
add_image(name, image) ==
    [name |-> name, image |-> make_grid(unnormalize(image)), step |-> current_epoch]

\* variant: cycle_x is rebuilt from fake_x instead of fake_y
validation_images_wrong_cycle(b) ==
    LET real_x == Image("real_x", b)
        real_y == Image("real_y", b)
        fake_y == x_to_y(real_x)
        fake_x == y_to_x(real_y)
        cycle_x == y_to_x(fake_x)
        cycle_y == x_to_y(fake_x)
    IN  <<add_image("cyclegan_fake_y", fake_y), add_image("cyclegan_fake_x", fake_x),
          add_image("cyclegan_cycle_x", cycle_x), add_image("cyclegan_cycle_y", cycle_y)>>

\* lines 216-230: the four transfers and the images logged for them
validation_images(b) ==
    LET real_x == Image("real_x", b)
        real_y == Image("real_y", b)
        fake_y == x_to_y(real_x)
        cycle_x == y_to_x(fake_y)
        fake_x == y_to_x(real_y)
        cycle_y == x_to_y(fake_x)
    IN  <<add_image("cyclegan_fake_y", fake_y), add_image("cyclegan_fake_x", fake_x),
          add_image("cyclegan_cycle_x", cycle_x), add_image("cyclegan_cycle_y", cycle_y)>>

validation_step ==
    /\ pc = "idle"
    /\ valCalls < MaxVal
    /\ valCalls' = valCalls + 1
    /\ IF ~logger
       THEN UNCHANGED <<logged, fwdRuns>>
       ELSE \E b \in 1..NumBatches :
            /\ logged' = logged \o validation_images(b)
            /\ fwdRuns' = [n \in Nets |-> fwdRuns[n] + IF n \in Generators THEN 2 ELSE 0]
    /\ UNCHANGED <<pc, cfgVars, optimizers, opt, params, grad, zeroMark, applied, graph,
                   loc, freed, bwVisited, bwError, events, startParams, batch, calls,
                   current_epoch, metrics>>

\* the trainer advances self.current_epoch between batches
epoch_end ==
    /\ pc = "idle"
    /\ current_epoch < MaxEpoch
    /\ current_epoch' = current_epoch + 1
    /\ UNCHANGED <<pc, cfgVars, optimizers, opt, params, grad, zeroMark, applied, graph,
                   loc, freed, bwVisited, bwError, events, startParams, batch, calls,
                   logged, metrics, fwdRuns, valCalls>>

\* ---------------------------------------------------------------- specification
Next ==
    \/ configure_optimizers
    \/ training_step_begin
    \/ L149_dx_zero_grad
    \/ L150_dy_zero_grad
    \/ L152_fake_y
    \/ L153_fake_x
    \/ L155_dx_loss
    \/ L156_dy_loss
    \/ L158_backward_dx_loss
    \/ L159_backward_dy_loss
    \/ L160_dx_step
    \/ L161_dy_step
    \/ L165_g_zero_grad
    \/ L166_f_zero_grad
    \/ L168_fake_y
    \/ L169_fake_x
    \/ L172_g_loss
    \/ L173_f_loss
    \/ L175_cycle_x
    \/ L176_cycle_y
    \/ L179_total_cycle_loss
    \/ L184_total_G_loss
    \/ L185_total_F_loss
    \/ L187_backward_total_G_loss
    \/ L190_backward_total_F_loss
    \/ L191_g_step
    \/ L192_f_step
    \/ L194_log_dict
    \/ validation_step
    \/ epoch_end

Spec == Init /\ [][Next]_vars


\* ---------------------------------------------------------------- properties
EventIdx(kind, net) ==
    {i \in 1..Len(events) : events[i].kind = kind /\ events[i].target = net}

Stepped(n) == EventIdx("step", n) # {}

OptimizerOf(n) ==
    CASE n = "g" -> "g_optimizer" [] n = "f" -> "f_optimizer"
      [] n = "dx" -> "dx_optimizer" [] n = "dy" -> "dy_optimizer"

LossOf(n) ==
    CASE n = "g" -> "total_G_loss" [] n = "f" -> "total_F_loss"
      [] n = "dx" -> "dx_loss" [] n = "dy" -> "dy_loss"

\* C1: in every training_step call both discriminator optimizers have stepped
\* before any generator optimizer is zeroed or stepped, and the parameters of G
\* and F keep their value of the start of the call until a generator optimizer steps.
C1_DiscriminatorsFirst ==
    /\ \A i \in 1..Len(events) :
         (events[i].kind \in {"zero_grad", "step"} /\ events[i].target \in Generators)
            => \A d \in Discriminators :
                 \E j \in EventIdx("step", d) : j < i /\ events[j].name = OptimizerOf(d)
    /\ (\A n \in Generators : ~Stepped(n))
            => \A n \in Generators : params[n] = startParams[n]

C1_Witness ==
    /\ pc = "L192"
    /\ Stepped("g")
    /\ params["g"] # startParams["g"]
    /\ params["dx"] # startParams["dx"]

\* C2: when g_loss and f_loss exist, fake_y, fake_x and every node of the graphs of
\* g_loss and f_loss were computed after both discriminator steps of the call, and
\* the discriminator calls in them used the parameters updated in this call.
C2_FreshForward ==
    \A v \in {"g_loss", "f_loss"} :
       loc[v] # Undef =>
          \A d \in Discriminators :
             /\ Stepped(d)
             /\ \A j \in EventIdx("step", d) :
                  /\ graph[loc["fake_y"]].born >= j
                  /\ graph[loc["fake_x"]].born >= j
                  /\ \A n \in GraphOf(graph, loc[v]) : graph[n].born >= j
             /\ \A n \in GraphOf(graph, loc[v]) :
                  (graph[n].op = "net" /\ graph[n].net = d)
                     => graph[n].ver = params[d] /\ graph[n].ver > startParams[d]

C2_Witness ==
    /\ pc = "L175"
    /\ loc["g_loss"] # Undef
    /\ loc["f_loss"] # Undef
    /\ CallsOf(graph, loc["g_loss"], "dy") # {}
    /\ CallsOf(graph, loc["f_loss"], "dx") # {}

\* C3: configure_optimizers returns the optimizers of g, f, dx, dy in that order,
\* training_step binds the names g_optimizer, f_optimizer, dx_optimizer,
\* dy_optimizer in the same order, and whenever the parameters of a network N
\* change, the step was that of the optimizer named for N and no other network changed.
C3_Binding ==
    /\ optimizers # <<>> =>
          optimizers = <<[params |-> "g"], [params |-> "f"],
                         [params |-> "dx"], [params |-> "dy"]>>
    /\ calls > 0 => \A n \in Nets : opt[OptimizerOf(n)] = n

C3_IndependentOptimizers ==
    [][ /\ C3_Binding'
        /\ \A n \in Nets :
              params'[n] # params[n] =>
                 /\ events' = Append(events, Event("step", OptimizerOf(n), n))
                 /\ \A m \in Nets \ {n} : params'[m] = params[m] ]_vars

C3_Witness ==
    /\ pc = "L194"
    /\ \A n \in Nets : Stepped(n) /\ params[n] = startParams[n] + 1

\* networks an image went through, in order
NetOps(img) ==
    LET nets == SelectSeq(img.ops, LAMBDA o : o[1] \in Nets)
    IN  [i \in 1..Len(nets) |-> nets[i][1]]

\* C4: a validation_step call changes no parameter and no gradient; without a
\* logger it runs no network and logs nothing; with a logger it logs exactly four
\* images, cyclegan_fake_y = G(x), cyclegan_fake_x = F(y), cyclegan_cycle_x = F(G(x)),
\* cyclegan_cycle_y = G(F(y)), each with the current epoch.
C4_Validation ==
    [][ valCalls' = valCalls + 1 =>
          /\ params' = params
          /\ grad' = grad
          /\ IF ~logger
             THEN logged' = logged /\ fwdRuns' = fwdRuns
             ELSE LET new == SubSeq(logged', Len(logged) + 1, Len(logged'))
                  IN  /\ Len(logged') = Len(logged) + 4
                      /\ SubSeq(logged', 1, Len(logged)) = logged
                      /\ \A e \in {<<"cyclegan_fake_y", "real_x", <<"g">>>>,
                                   <<"cyclegan_fake_x", "real_y", <<"f">>>>,
                                   <<"cyclegan_cycle_x", "real_x", <<"g", "f">>>>,
                                   <<"cyclegan_cycle_y", "real_y", <<"f", "g">>>>} :
                            Cardinality({i \in 1..Len(new) :
                                /\ new[i].name = e[1]
                                /\ new[i].image.src = e[2]
                                /\ NetOps(new[i].image) = e[3]
                                /\ new[i].step = current_epoch}) = 1 ]_vars

C4_Witness ==
    /\ Len(logged) >= 4
    /\ logged[1].step > 0
    /\ logged[3].image.ops[1] = <<"g", 1>>
    /\ logged[3].image.ops[2] = <<"f", 1>>

\* C5 (as claimed): dx_loss is built from predictions of Dx only and dy_loss from
\* predictions of Dy only, and the gradient a discriminator optimizer applies
\* comes from that discriminator's own loss only.
C5_OwnPredictions ==
    \A d \in Discriminators :
       /\ loc[LossOf(d)] # Undef =>
             {graph[c].net : c \in {n \in GraphOf(graph, loc[LossOf(d)]) :
                                      graph[n].op = "net" /\ graph[n].net \in Discriminators}}
                = {d}
       /\ Stepped(d) => \A e \in applied[d] : e.root = loc[LossOf(d)]

\* C6 (as claimed): the gradient applied by g_optimizer.step() is that of
\* total_G_loss with respect to G, the one applied by f_optimizer.step() that of
\* total_F_loss with respect to F, each contribution once.
C6_GeneratorGradient ==
    \A n \in Generators :
       Stepped(n) =>
          /\ {<<e.root, e.via>> : e \in applied[n]}
                = {<<loc[LossOf(n)], c>> : c \in CallsOf(graph, loc[LossOf(n)], n)}
          /\ Cardinality(applied[n]) = Cardinality(CallsOf(graph, loc[LossOf(n)], n))

BackwardAt ==
    [L158 |-> "dx_loss", L159 |-> "dy_loss", L187 |-> "total_G_loss", L190 |-> "total_F_loss"]

\* C7 (as claimed): no manual_backward meets a node whose buffers an earlier
\* backward of the step has freed; the graph of total_cycle_loss, shared by
\* total_G_loss and total_F_loss, is traversed by the first and still intact for
\* the second; the backward passes of dx_loss and dy_loss share no graph node,
\* parameter leaves included.
C7_GraphRetention ==
    /\ ~bwError
    /\ pc # "raised"
    /\ \A l \in DOMAIN BackwardAt :
          pc = l => GraphOf(graph, loc[BackwardAt[l]]) \cap freed = {}
    /\ Len(bwVisited) >= 2 => bwVisited[1] \cap bwVisited[2] = {}
    /\ pc = "L190" =>
          /\ GraphOf(graph, loc["total_cycle_loss"]) \subseteq bwVisited[3]
          /\ GraphOf(graph, loc["total_cycle_loss"])
                \subseteq GraphOf(graph, loc["total_F_loss"])

\* the part of C7 about freed nodes alone
C7_NoFreedNodeTraversed ==
    /\ ~bwError
    /\ pc # "raised"
    /\ \A l \in DOMAIN BackwardAt :
          pc = l => GraphOf(graph, loc[BackwardAt[l]]) \cap freed = {}

\* C8 (as claimed): cycle_x = F(fake_y) and cycle_y = G(fake_x) on the generator-phase fake_y =
\* G(real_x) and fake_x = F(real_y); total_cycle_loss is lambda_param times
\* (L(real_x, cycle_x) + L(real_y, cycle_y)), plus regularization(real_x, fake_y)
\* when a regularization class was given and plus 0 otherwise; total_G_loss and
\* total_F_loss both add that same total_cycle_loss node.
C8_CycleTerm ==
    loc["total_F_loss"] # Undef =>
       LET fy == loc["fake_y"]
           fx == loc["fake_x"]
           cx == loc["cycle_x"]
           cy == loc["cycle_y"]
           tcl == graph[loc["total_cycle_loss"]]
           scaled == graph[tcl.args[1]]
           sum == graph[scaled.args[1]]
           IsCall(id, net, inp) ==
               graph[id].op = "net" /\ graph[id].net = net /\ graph[id].args = <<inp>>
           GenPhase(id) == \A i \in EventIdx("zero_grad", "g") : graph[id].born >= i
       IN  /\ IsCall(fy, "g", "real_x") /\ GenPhase(fy)
           /\ IsCall(fx, "f", "real_y") /\ GenPhase(fx)
           /\ IsCall(cx, "f", fy)
           /\ IsCall(cy, "g", fx)
           /\ graph[cx].ver = startParams["f"] /\ graph[cy].ver = startParams["g"]
           /\ scaled.op = "mul" /\ scaled.k = <<lambda_param, 1>>
           /\ sum.op = "add"
           /\ graph[sum.args[1]].op = "cyc" /\ graph[sum.args[1]].args = <<"real_x", cx>>
           /\ graph[sum.args[2]].op = "cyc" /\ graph[sum.args[2]].args = <<"real_y", cy>>
           /\ IF regularization # "None"
              THEN /\ tcl.op = "add"
                   /\ graph[tcl.args[2]].op = "reg"
                   /\ graph[tcl.args[2]].args = <<"real_x", fy>>
              ELSE tcl.op = "add_scalar" /\ tcl.k = <<0, 1>>
           /\ graph[loc["total_G_loss"]].op = "add"
           /\ graph[loc["total_G_loss"]].args = <<loc["g_loss"], loc["total_cycle_loss"]>>
           /\ graph[loc["total_F_loss"]].op = "add"
           /\ graph[loc["total_F_loss"]].args = <<loc["f_loss"], loc["total_cycle_loss"]>>

\* C9: whenever an optimizer has stepped, the gradient it applied consists only
\* of contributions of backward passes of the same call made after the zero_grad
\* of that optimizer in that call.
C9_NoStaleGradient ==
    \A n \in Nets :
       Stepped(n) =>
          /\ zeroMark[n].call = calls
          /\ \A i \in EventIdx("step", n) :
                \E j \in EventIdx("zero_grad", n) : j < i
          /\ \A e \in applied[n] : e.call = calls /\ e.bw > zeroMark[n].bw

C9_Witness ==
    /\ calls = 2
    /\ pc = "L194"
    /\ \A n \in Nets : Stepped(n) /\ applied[n] # {}
    /\ \E e \in applied["dx"] : e.bw = 2

====
